---- MODULE Spec2Model ----
(***************************************************************************)
(* The migration job orchestration engine of AI-Storage-Orchestrator:      *)
(* pkg/controller/migration.go (MigrationController) with the types of     *)
(* pkg/types/migration.go.                                                 *)
(*                                                                         *)
(* One goroutine per job runs executeMigration.  Every collaborator call   *)
(* (a k8sClient method) is one action: the call, its outcome and the code  *)
(* after it up to the next blocking point.  Acquiring migrationsMux is     *)
(* a blocking point of its own; the critical section and the Unlock are    *)
(* one action.  Time is in seconds, as in MigrationRequest.Timeout.        *)
(***************************************************************************)
EXTENDS Integers, Sequences, FiniteSets, TLC

VARIABLES
    jobs,        \* the MigrationJob objects, in order of creation
    migrations,  \* mc.migrations: ID -> index of the job in jobs
    metrics,     \* mc.metrics
    mux,         \* mc.migrationsMux: 0 when free, else the job whose goroutine holds Lock
    pc,          \* position of each job's executeMigration goroutine
    wake,        \* the time at which each job's time.Sleep returns
    now,         \* the clock read by time.Now()
    trace,       \* history: per job, the steps its goroutine has taken, with outcomes
    call         \* the caller of the API: its call in progress, or what its last call returned

vars == <<jobs, migrations, metrics, mux, pc, wake, now, trace, call>>

----------------------------------------------------------------------------
(* Bounds *)

MaxJobs == 2
MaxTime == 30

(* Program constants *)

DefaultTimeout == 600
SettleDelay == 30

(* Inputs *)

\* uuid.New().String()[:8] is random: an ID may repeat an earlier one or be new.
\* IDs are interchangeable, so a new one is always the least unused number.
NewIDs(issued) == issued \cup {Cardinality(issued) + 1}
Timeouts == {0, 30}
PodNames == {"p1"}
Requests == [PodName : PodNames, PreservePV : BOOLEAN, Timeout : Timeouts]

OriginalSamples == {[CPUUsage |-> 2000, MemoryUsage |-> 1000]}
\* The usage reported for the new pod: below half of the original, or the very
\* values that the estimate of step 5 yields for the original sample.
OptimizedSamples ==
    {[CPUUsage |-> 500, MemoryUsage |-> 400], [CPUUsage |-> 1000, MemoryUsage |-> 600]}
\* The status the cluster reports for a container: its phase and, when
\* terminated, its exit code.
MaxContainers == 2
ContainerNames == <<"main", "init", "sidecar">>
RuntimeStatuses ==
    [Phase : {"waiting", "running"}, ExitCode : {0}]
        \cup [Phase : {"terminated"}, ExitCode : {0, 1, 137}]

\* A pod is the sequence of its containers; AllPods has every pod of up to
\* MaxContainers containers, Pods the one with a running and a finished container.
AllPods ==
    UNION { { [i \in 1 .. n |-> [Name |-> ContainerNames[i], Phase |-> f[i].Phase,
                                  ExitCode |-> f[i].ExitCode]] :
              f \in [1 .. n -> RuntimeStatuses] } : n \in 0 .. MaxContainers }
Pods ==
    { << [Name |-> "main", Phase |-> "running", ExitCode |-> 0],
         [Name |-> "init", Phase |-> "terminated", ExitCode |-> 0] >> }

\* Faulty variant: a terminated container is never migrated.
Classify_TerminatedStays(c) ==
    [Name |-> c.Name,
     State |-> CASE c.Phase = "waiting" -> "waiting"
                 [] c.Phase = "running" -> "running"
                 [] OTHER -> "completed",
     ShouldMigrate |-> c.Phase = "running"]

\* k8s.Client.GetPodContainerStates, for one container.
Classify(c) ==
    CASE c.Phase = "waiting" -> [Name |-> c.Name, State |-> "waiting", ShouldMigrate |-> FALSE]
      [] c.Phase = "running" -> [Name |-> c.Name, State |-> "running", ShouldMigrate |-> TRUE]
      [] c.Phase = "terminated" /\ c.ExitCode = 0
            -> [Name |-> c.Name, State |-> "completed", ShouldMigrate |-> FALSE]
      [] OTHER -> [Name |-> c.Name, State |-> "failed", ShouldMigrate |-> TRUE]

GetPodContainerStates(pod) == [i \in 1 .. Len(pod) |-> Classify(pod[i])]

PodContainerStates == {GetPodContainerStates(pod) : pod \in Pods}
AllPodContainerStates == {GetPodContainerStates(pod) : pod \in AllPods}

----------------------------------------------------------------------------
(* Values *)

\* A pointer is Nil or Some(value).  A name is a tuple of its parts; "" is the empty tuple.
Nil == << >>
Some(x) == << x >>
EmptyString == << >>

MigrationStatusPending == "pending"
MigrationStatusRunning == "running"
MigrationStatusCompleted == "completed"
MigrationStatusFailed == "failed"
MigrationStatusCancelled == "cancelled"

RECURSIVE Gcd(_, _)
Gcd(a, b) == IF b = 0 THEN a ELSE Gcd(b, a % b)

Abs(x) == IF x < 0 THEN -x ELSE x

\* A float64 as an exact fraction; den = 0 encodes +Inf (num 1), -Inf (num -1), NaN (num 0).
Float(n, d) ==
    IF d = 0 THEN [num |-> IF n > 0 THEN 1 ELSE IF n < 0 THEN -1 ELSE 0, den |-> 0]
    ELSE LET g == Gcd(Abs(n), Abs(d))
             s == IF d < 0 THEN -1 ELSE 1
         IN  [num |-> (s * n) \div g, den |-> (s * d) \div g]

ZeroMetrics ==
    [TotalMigrations |-> 0, SuccessfulMigrations |-> 0, FailedMigrations |-> 0,
     AverageDuration |-> 0, CPUSavings |-> Float(0, 1), MemorySavings |-> Float(0, 1)]

JobIds == 1 .. Len(jobs)

\* What a function returns where the code returns *MigrationDetails or
\* *MigrationMetrics: the address of the object it shares with the controller
\* (Ref, Shared), or a fresh object holding a value of its own (Copy).
Ref(j) == [ref |-> TRUE, job |-> j]
Shared == [ref |-> TRUE]
Copy(v) == [ref |-> FALSE, value |-> v]

\* What is read through such a pointer in the current state.
DetailsAt(p) == IF p.ref THEN jobs[p.job].Details ELSE p.value
MetricsAt(p) == IF p.ref THEN metrics ELSE p.value

NoCall == [op |-> "none", pc |-> "returned"]

----------------------------------------------------------------------------
(* StartMigration *)

\* Faulty variant: a timeout of 0 is taken as it is.
ContextTimeout_NoDefault(req) == req.Timeout

ContextTimeout(req) == IF req.Timeout = 0 THEN DefaultTimeout ELSE req.Timeout

NewJob(id, req, t0, t1, t2) ==
    [ID |-> id,
     Request |-> req,
     Status |-> MigrationStatusPending,
     StartTime |-> t1,
     Details |-> [StartTime |-> t2, EndTime |-> Nil, Duration |-> Nil,
                  OriginalResources |-> Nil, OptimizedResources |-> Nil,
                  ContainerStates |-> << >>,
                  CheckpointPath |-> EmptyString, PVClaimName |-> EmptyString,
                  NewPodName |-> EmptyString],
     deadline |-> t0 + ContextTimeout(req),
     pod |-> Nil]

\* Faulty variant: the key is never inserted.
Store_Dropped(m, id, j) == m

Store(m, id, j) == [i \in (DOMAIN m) \cup {id} |-> IF i = id THEN j ELSE m[i]]

StartMessage == "Migration started"

\* The *MigrationResponse a handler returns.  In every value returned to the
\* caller, seen is what the returned pointer showed at the instant of the return.
MigrationResponse(op, id, status, message, details, seen) ==
    [op |-> op, pc |-> "returned", err |-> FALSE, MigrationID |-> id, Status |-> status,
     Message |-> message, Details |-> details, seen |-> seen]

\* d is how far the clock advances between the time.Now() of job.StartTime and
\* the time.Now() of Details.StartTime.
StartMigration(req, id, d) ==
    /\ Len(jobs) < MaxJobs
    /\ mux = 0
    /\ d = 0 \/ now < MaxTime
    /\ jobs' = Append(jobs, NewJob(id, req, now, now, now + d))
    /\ now' = now + d
    /\ migrations' = Store(migrations, id, Len(jobs) + 1)
    /\ pc' = Append(pc, "updateJobStatus")
    /\ wake' = Append(wake, 0)
    /\ trace' = Append(trace, << >>)
    /\ call' = MigrationResponse("StartMigration", id, MigrationStatusPending, StartMessage,
                                  Ref(Len(jobs) + 1), jobs'[Len(jobs) + 1].Details)
    /\ UNCHANGED <<metrics, mux>>

----------------------------------------------------------------------------
(* executeMigration: order of the steps and error policy *)

\* Faulty variants of the error policy, used to test the properties below.
FailFast_IgnoreReadiness ==
    {"GetPod1", "GetPodContainerStates", "CreatePVC", "GetPod3", "CreateOptimizedPod"}

FailFast_IgnoreCheckpoint ==
    {"GetPod1", "GetPodContainerStates", "GetPod3", "CreateOptimizedPod", "WaitForPodReady"}

FailFast_DeleteAborts ==
    {"GetPod1", "GetPodContainerStates", "CreatePVC",
     "GetPod3", "CreateOptimizedPod", "WaitForPodReady", "DeletePod"}

\* Faulty variant: a failed sampling of the original usage aborts the job.
FailFast_MetricsAbort ==
    {"GetPod1", "GetPodContainerStates", "GetPodMetrics1", "CreatePVC",
     "GetPod3", "CreateOptimizedPod", "WaitForPodReady"}

FailFast ==
    {"GetPod1", "GetPodContainerStates", "CreatePVC",
     "GetPod3", "CreateOptimizedPod", "WaitForPodReady"}

FailSite(step) ==
    CASE step \in {"GetPod1", "GetPodContainerStates"} -> "fail1"
      [] step = "CreatePVC" -> "fail2"
      [] OTHER -> "fail3"

\* Faulty variant: the original pod is deleted before its replacement is created.
Successor_DeleteFirst(step, preserve) ==
    CASE step = "updateJobStatus" -> "GetPod1"
      [] step = "GetPod1" -> "GetPodContainerStates"
      [] step = "GetPodContainerStates" -> "GetPodMetrics1"
      [] step = "GetPodMetrics1" -> IF preserve THEN "CreatePVC" ELSE "DeletePod"
      [] step = "CreatePVC" -> "DeletePod"
      [] step = "DeletePod" -> "GetPod3"
      [] step = "GetPod3" -> "CreateOptimizedPod"
      [] step = "CreateOptimizedPod" -> "WaitForPodReady"
      [] step = "WaitForPodReady" -> "Sleep"
      [] step = "Sleep" -> "GetPodMetrics5"
      [] step = "GetPodMetrics5" -> "completeMigration"
      [] OTHER -> "done"

\* Faulty variant: the checkpoint is created whether requested or not.
Successor_AlwaysCheckpoint(step, preserve) ==
    CASE step = "updateJobStatus" -> "GetPod1"
      [] step = "GetPod1" -> "GetPodContainerStates"
      [] step = "GetPodContainerStates" -> "GetPodMetrics1"
      [] step = "GetPodMetrics1" -> "CreatePVC"
      [] step = "CreatePVC" -> "GetPod3"
      [] step = "GetPod3" -> "CreateOptimizedPod"
      [] step = "CreateOptimizedPod" -> "WaitForPodReady"
      [] step = "WaitForPodReady" -> "DeletePod"
      [] step = "DeletePod" -> "Sleep"
      [] step = "Sleep" -> "GetPodMetrics5"
      [] step = "GetPodMetrics5" -> "completeMigration"
      [] OTHER -> "done"

\* Faulty variant: the original pod is deleted as soon as its replacement is
\* created, before the readiness wait.
Successor_DeleteBeforeReady(step, preserve) ==
    CASE step = "updateJobStatus" -> "GetPod1"
      [] step = "GetPod1" -> "GetPodContainerStates"
      [] step = "GetPodContainerStates" -> "GetPodMetrics1"
      [] step = "GetPodMetrics1" -> IF preserve THEN "CreatePVC" ELSE "GetPod3"
      [] step = "CreatePVC" -> "GetPod3"
      [] step = "GetPod3" -> "CreateOptimizedPod"
      [] step = "CreateOptimizedPod" -> "DeletePod"
      [] step = "DeletePod" -> "WaitForPodReady"
      [] step = "WaitForPodReady" -> "Sleep"
      [] step = "Sleep" -> "GetPodMetrics5"
      [] step = "GetPodMetrics5" -> "completeMigration"
      [] OTHER -> "done"

Successor(step, preserve) ==
    CASE step = "updateJobStatus" -> "GetPod1"
      [] step = "GetPod1" -> "GetPodContainerStates"
      [] step = "GetPodContainerStates" -> "GetPodMetrics1"
      [] step = "GetPodMetrics1" -> IF preserve THEN "CreatePVC" ELSE "GetPod3"
      [] step = "CreatePVC" -> "GetPod3"
      [] step = "GetPod3" -> "CreateOptimizedPod"
      [] step = "CreateOptimizedPod" -> "WaitForPodReady"
      [] step = "WaitForPodReady" -> "DeletePod"
      [] step = "DeletePod" -> "Sleep"
      [] step = "Sleep" -> "GetPodMetrics5"
      [] step = "GetPodMetrics5" -> "completeMigration"
      [] OTHER -> "done"

\* Faulty variant: a failed best-effort call is issued again.
StepAfter_Retry(step, ok, preserve) ==
    IF ~ok /\ step \in FailFast THEN FailSite(step)
    ELSE IF ~ok /\ step \in {"DeletePod", "GetPodMetrics5"} THEN step
    ELSE Successor(step, preserve)

StepAfter(step, ok, preserve) ==
    IF ~ok /\ step \in FailFast THEN FailSite(step) ELSE Successor(step, preserve)

\* Faulty variant: the return after the third failMigration call is missing.
AfterFailMigration_NoReturn(site) == IF site = "fail3" THEN "DeletePod" ELSE "done"

\* executeMigration returns after each failMigration call.
AfterFailMigration(site) == "done"

----------------------------------------------------------------------------
(* The collaborator (k8s.Client) *)

Expired(j) == now >= jobs[j].deadline

\* A call bound to job.ctx returns an error once the deadline has passed;
\* before that it returns success or an error.
CallOutcomes(j) == IF Expired(j) THEN {FALSE} ELSE BOOLEAN

CheckpointName(req, t) == <<"checkpoint", req.PodName, t>>

CreatedPodName(req) == <<req.PodName, "migrated">>

Record(j, step, ok) == [trace EXCEPT ![j] = Append(@, <<step, ok>>)]

Goto(j, step, ok) == [pc EXCEPT ![j] = StepAfter(step, ok, jobs[j].Request.PreservePV)]

----------------------------------------------------------------------------
(* migrationsMux.Lock() of updateJobStatus, failMigration, completeMigration *)

LockPoints == {"updateJobStatus", "fail1", "fail2", "fail3", "completeMigration"}

Lock(j) ==
    /\ pc[j] \in LockPoints
    /\ mux = 0
    /\ mux' = j
    /\ UNCHANGED <<call, jobs, migrations, metrics, pc, wake, now, trace>>

(* updateJobStatus(job, running) *)

\* Faulty variant: the Unlock is missing, the lock is kept into step 1.
UpdateJobStatus_NoUnlock(j) ==
    /\ pc[j] = "updateJobStatus"
    /\ mux = j
    /\ jobs' = [jobs EXCEPT ![j].Status = MigrationStatusRunning]
    /\ pc' = Goto(j, "updateJobStatus", TRUE)
    /\ trace' = Record(j, "running", TRUE)
    /\ UNCHANGED <<call, migrations, metrics, mux, wake, now>>

UpdateJobStatus(j) ==
    /\ pc[j] = "updateJobStatus"
    /\ mux = j
    /\ jobs' = [jobs EXCEPT ![j].Status = MigrationStatusRunning]
    /\ mux' = 0
    /\ pc' = Goto(j, "updateJobStatus", TRUE)
    /\ trace' = Record(j, "running", TRUE)
    /\ UNCHANGED <<call, migrations, metrics, wake, now>>

----------------------------------------------------------------------------
(* Step 1: captureContainerStates *)

ZeroSample == [CPUUsage |-> 0, MemoryUsage |-> 0]

\* pod, err := GetPod(...): the field pod of a job is this local variable.
CaptureGetPod(j, ok, pod) ==
    /\ pc[j] = "GetPod1"
    /\ ok \in CallOutcomes(j)
    /\ jobs' = IF ok THEN [jobs EXCEPT ![j].pod = Some(pod)] ELSE jobs
    /\ pc' = Goto(j, "GetPod1", ok)
    /\ trace' = Record(j, "GetPod1", ok)
    /\ UNCHANGED <<call, migrations, metrics, mux, wake, now>>

\* Faulty variant: a pod without containers is refused, the job fails at step 1.
CaptureGetPodContainerStates_RejectsEmpty(j, ok, states) ==
    /\ pc[j] = "GetPodContainerStates"
    /\ states = GetPodContainerStates(jobs[j].pod[1])
    /\ jobs' = IF ok THEN [jobs EXCEPT ![j].Details.ContainerStates = states] ELSE jobs
    /\ pc' = Goto(j, "GetPodContainerStates", ok /\ states # << >>)
    /\ trace' = Record(j, "GetPodContainerStates", ok)
    /\ UNCHANGED <<call, migrations, metrics, mux, wake, now>>

CaptureGetPodContainerStates(j, ok, states) ==
    /\ pc[j] = "GetPodContainerStates"
    /\ states = GetPodContainerStates(jobs[j].pod[1])
    /\ jobs' = IF ok THEN [jobs EXCEPT ![j].Details.ContainerStates = states] ELSE jobs
    /\ pc' = Goto(j, "GetPodContainerStates", ok)
    /\ trace' = Record(j, "GetPodContainerStates", ok)
    /\ UNCHANGED <<call, migrations, metrics, mux, wake, now>>

CaptureGetPodMetrics(j, ok, sample) ==
    /\ pc[j] = "GetPodMetrics1"
    /\ ok \in CallOutcomes(j)
    /\ jobs' = [jobs EXCEPT ![j].Details.OriginalResources =
                                Some(IF ok THEN sample ELSE ZeroSample)]
    /\ pc' = Goto(j, "GetPodMetrics1", ok)
    /\ trace' = Record(j, "GetPodMetrics1", ok)
    /\ UNCHANGED <<call, migrations, metrics, mux, wake, now>>

(* Step 2: createCheckpoint, when Request.PreservePV *)

CreateCheckpoint(j, ok) ==
    /\ pc[j] = "CreatePVC"
    /\ ok \in CallOutcomes(j)
    /\ jobs' = IF ok
               THEN [jobs EXCEPT
                       ![j].Details.CheckpointPath = CheckpointName(jobs[j].Request, now),
                       ![j].Details.PVClaimName = CheckpointName(jobs[j].Request, now)]
               ELSE jobs
    /\ pc' = Goto(j, "CreatePVC", ok)
    /\ trace' = Record(j, "CreatePVC", ok)
    /\ UNCHANGED <<call, migrations, metrics, mux, wake, now>>

(* Step 3: createOptimizedPod *)

OptimizedGetPod(j, ok) ==
    /\ pc[j] = "GetPod3"
    /\ ok \in CallOutcomes(j)
    /\ pc' = Goto(j, "GetPod3", ok)
    /\ trace' = Record(j, "GetPod3", ok)
    /\ UNCHANGED <<call, jobs, migrations, metrics, mux, wake, now>>

\* Faulty variant: the name is stored as soon as the pod is created.
OptimizedCreate_StoresName(j, ok) ==
    /\ pc[j] = "CreateOptimizedPod"
    /\ ok \in CallOutcomes(j)
    /\ jobs' = IF ok
               THEN [jobs EXCEPT ![j].Details.NewPodName = CreatedPodName(jobs[j].Request)]
               ELSE jobs
    /\ pc' = Goto(j, "CreateOptimizedPod", ok)
    /\ trace' = Record(j, "CreateOptimizedPod", ok)
    /\ UNCHANGED <<call, migrations, metrics, mux, wake, now>>

OptimizedCreate(j, ok) ==
    /\ pc[j] = "CreateOptimizedPod"
    /\ ok \in CallOutcomes(j)
    /\ pc' = Goto(j, "CreateOptimizedPod", ok)
    /\ trace' = Record(j, "CreateOptimizedPod", ok)
    /\ UNCHANGED <<call, jobs, migrations, metrics, mux, wake, now>>

OptimizedWaitForPodReady(j, ok) ==
    /\ pc[j] = "WaitForPodReady"
    /\ ok \in CallOutcomes(j)
    /\ jobs' = IF ok
               THEN [jobs EXCEPT ![j].Details.NewPodName = CreatedPodName(jobs[j].Request)]
               ELSE jobs
    /\ pc' = Goto(j, "WaitForPodReady", ok)
    /\ trace' = Record(j, "WaitForPodReady", ok)
    /\ UNCHANGED <<call, migrations, metrics, mux, wake, now>>

(* Step 4: deleteOriginalPod; then collectPostMigrationMetrics begins its time.Sleep *)

DeleteOriginalPod(j, ok) ==
    /\ pc[j] = "DeletePod"
    /\ ok \in CallOutcomes(j)
    /\ pc' = Goto(j, "DeletePod", ok)
    /\ wake' = [wake EXCEPT ![j] = now + SettleDelay]
    /\ trace' = Record(j, "DeletePod", ok)
    /\ UNCHANGED <<call, jobs, migrations, metrics, mux, now>>

(* Step 5: collectPostMigrationMetrics *)

\* Faulty variant: the two ratios are exchanged.
Estimate_RatiosExchanged(original) ==
    [CPUUsage |-> (original.CPUUsage * 6) \div 10,
     MemoryUsage |-> original.MemoryUsage \div 2]

Estimate(original) ==
    [CPUUsage |-> original.CPUUsage \div 2,
     MemoryUsage |-> (original.MemoryUsage * 6) \div 10]

SleepReturns(j) ==
    /\ pc[j] = "Sleep"
    /\ now >= wake[j]
    /\ pc' = Goto(j, "Sleep", TRUE)
    /\ wake' = [wake EXCEPT ![j] = 0]
    /\ trace' = Record(j, "Sleep", TRUE)
    /\ UNCHANGED <<call, jobs, migrations, metrics, mux, now>>

\* Faulty variant: after a failed sampling no estimate is stored.
Fallback_Nothing(details) == details

Fallback(details) ==
    IF details.OriginalResources # Nil
    THEN [details EXCEPT !.OptimizedResources = Some(Estimate(details.OriginalResources[1]))]
    ELSE details

CollectPostMigrationMetrics(j, ok, sample) ==
    /\ pc[j] = "GetPodMetrics5"
    /\ IF jobs[j].Details.NewPodName # EmptyString
       THEN /\ ok \in CallOutcomes(j)
            /\ jobs' = [jobs EXCEPT ![j].Details =
                          IF ok THEN [@ EXCEPT !.OptimizedResources = Some(sample)]
                                ELSE Fallback(@)]
            /\ trace' = Record(j, "GetPodMetrics5", ok)
       ELSE /\ ok
            /\ jobs' = [jobs EXCEPT ![j].Details = Fallback(@)]
            /\ trace' = trace
    /\ pc' = Goto(j, "GetPodMetrics5", ok)
    /\ UNCHANGED <<call, migrations, metrics, mux, wake, now>>

----------------------------------------------------------------------------
(* failMigration *)

\* Faulty variant: the end time is not recorded.
FailedJob_NoEndTime(job, endTime) == [job EXCEPT !.Status = MigrationStatusFailed]

FailedJob(job, endTime) ==
    [job EXCEPT !.Status = MigrationStatusFailed,
                !.Details.EndTime = Some(endTime),
                !.Details.Duration = Some(endTime - job.StartTime)]

\* Faulty variant: the failure is not counted.
FailedMetrics_NoCount(m) == m

\* Faulty variant: a failure also resets the average and the savings.
FailedMetrics_Resets(m) ==
    [m EXCEPT !.FailedMigrations = @ + 1, !.AverageDuration = 0,
              !.CPUSavings = Float(0, 1), !.MemorySavings = Float(0, 1)]

FailedMetrics(m) == [m EXCEPT !.FailedMigrations = @ + 1]

\* Faulty variant: the Unlock is missing.
FailMigration_NoUnlock(j) ==
    /\ pc[j] \in {"fail1", "fail2", "fail3"}
    /\ mux = j
    /\ jobs' = [jobs EXCEPT ![j] = FailedJob(@, now)]
    /\ metrics' = FailedMetrics(metrics)
    /\ pc' = [pc EXCEPT ![j] = AfterFailMigration(@)]
    /\ trace' = Record(j, "failed", TRUE)
    /\ UNCHANGED <<call, migrations, mux, wake, now>>

\* Faulty variant: the failure of one job ends every running job as failed.
FailMigration_FailsRunning(j) ==
    /\ pc[j] \in {"fail1", "fail2", "fail3"}
    /\ mux = j
    /\ jobs' = [k \in JobIds |->
                  IF k = j \/ jobs[k].Status = MigrationStatusRunning
                  THEN FailedJob(jobs[k], now) ELSE jobs[k]]
    /\ metrics' = FailedMetrics(metrics)
    /\ mux' = 0
    /\ pc' = [pc EXCEPT ![j] = AfterFailMigration(@)]
    /\ trace' = Record(j, "failed", TRUE)
    /\ UNCHANGED <<call, migrations, wake, now>>

FailMigration(j) ==
    /\ pc[j] \in {"fail1", "fail2", "fail3"}
    /\ mux = j
    /\ jobs' = [jobs EXCEPT ![j] = FailedJob(@, now)]
    /\ metrics' = FailedMetrics(metrics)
    /\ mux' = 0
    /\ pc' = [pc EXCEPT ![j] = AfterFailMigration(@)]
    /\ trace' = Record(j, "failed", TRUE)
    /\ UNCHANGED <<call, migrations, wake, now>>

(* completeMigration *)

CompletedJob(job, endTime) ==
    [job EXCEPT !.Status = MigrationStatusCompleted,
                !.Details.EndTime = Some(endTime),
                !.Details.Duration = Some(endTime - job.StartTime)]

\* Faulty variant: the difference is taken relative to the optimized usage.
Savings_OfOptimized(original, optimized) == Float((original - optimized) * 100, optimized)

Savings(original, optimized) == Float((original - optimized) * 100, original)

\* Faulty variant: the average is the mean of the old average and the new duration.
CompletedMetrics_MeanOfTwo(m, job) ==
    [m EXCEPT !.TotalMigrations = @ + 1,
              !.SuccessfulMigrations = @ + 1,
              !.AverageDuration = (@ + job.Details.Duration[1]) \div 2]

CompletedMetrics(m, job) ==
    LET total == m.TotalMigrations + 1
        duration == job.Details.Duration[1]
        average == IF total > 0
                   THEN (m.AverageDuration * (total - 1) + duration) \div total
                   ELSE m.AverageDuration
        both == job.Details.OriginalResources # Nil /\ job.Details.OptimizedResources # Nil
        o == job.Details.OriginalResources[1]
        p == job.Details.OptimizedResources[1]
    IN  [TotalMigrations |-> total,
         SuccessfulMigrations |-> m.SuccessfulMigrations + 1,
         FailedMigrations |-> m.FailedMigrations,
         AverageDuration |-> average,
         CPUSavings |-> IF both THEN Savings(o.CPUUsage, p.CPUUsage) ELSE m.CPUSavings,
         MemorySavings |-> IF both THEN Savings(o.MemoryUsage, p.MemoryUsage)
                           ELSE m.MemorySavings]

CompleteMigration(j) ==
    /\ pc[j] = "completeMigration"
    /\ mux = j
    /\ jobs' = [jobs EXCEPT ![j] = CompletedJob(@, now)]
    /\ metrics' = CompletedMetrics(metrics, CompletedJob(jobs[j], now))
    /\ mux' = 0
    /\ pc' = Goto(j, "completeMigration", TRUE)
    /\ trace' = Record(j, "completed", TRUE)
    /\ UNCHANGED <<call, migrations, wake, now>>

----------------------------------------------------------------------------
(* The clock *)

Tick ==
    /\ now < MaxTime \/ \E j \in JobIds : pc[j] = "Sleep" /\ wake[j] > now
    /\ now' = now + SettleDelay
    /\ UNCHANGED <<call, jobs, migrations, metrics, mux, pc, wake, trace>>

----------------------------------------------------------------------------
(* GetMigrationStatus and GetMetrics, called by one caller, one call at a time *)

\* The IDs a caller asks for: every ID that can be issued, and one that cannot.
QueryIDs == 1 .. (MaxJobs + 1)

\* Faulty variant: an absent key yields the first job.
Lookup_FirstJob(m, id) == IF id \in DOMAIN m THEN Some(m[id]) ELSE Some(1)

\* mc.migrations[migrationID]: the job, or Nil when the key is absent.
Lookup(m, id) == IF id \in DOMAIN m THEN Some(m[id]) ELSE Nil

NotFound(id) == [op |-> "GetMigrationStatus", pc |-> "returned", err |-> TRUE, id |-> id]

getStatusMessage(status) ==
    CASE status = MigrationStatusPending -> "Migration is pending"
      [] status = MigrationStatusRunning -> "Migration is in progress"
      [] status = MigrationStatusCompleted -> "Migration completed successfully"
      [] status = MigrationStatusFailed -> "Migration failed"
      [] status = MigrationStatusCancelled -> "Migration was cancelled"
      [] OTHER -> "Unknown status"

\* The message executeMigration passes to failMigration, without the error text.
FailureMessage(site) ==
    CASE site = "fail1" -> "Failed to capture container states"
      [] site = "fail2" -> "Failed to create checkpoint"
      [] OTHER -> "Failed to create optimized pod"

\* RLock, the map lookup, RUnlock, and the return of the error when the key is absent.
GetMigrationStatus(id) ==
    /\ call.pc = "returned"
    /\ mux = 0
    /\ call' = IF Lookup(migrations, id) = Nil THEN NotFound(id)
               ELSE [op |-> "GetMigrationStatus", pc |-> "Status", id |-> id,
                     job |-> Lookup(migrations, id)[1]]
    /\ UNCHANGED <<jobs, migrations, metrics, mux, pc, wake, now, trace>>

\* Status: job.Status, read without the lock.
ReadStatus ==
    /\ call.pc = "Status"
    /\ call' = [op |-> call.op, pc |-> "Message", id |-> call.id, job |-> call.job,
                Status |-> jobs[call.job].Status]
    /\ UNCHANGED <<jobs, migrations, metrics, mux, pc, wake, now, trace>>

\* Message: getStatusMessage(job.Status), a second read of job.Status.
ReadMessage ==
    /\ call.pc = "Message"
    /\ call' = [op |-> call.op, pc |-> "Details", id |-> call.id, job |-> call.job,
                Status |-> call.Status,
                Message |-> getStatusMessage(jobs[call.job].Status)]
    /\ UNCHANGED <<jobs, migrations, metrics, mux, pc, wake, now, trace>>

\* Details: job.Details, the pointer itself, and the return.
ReturnStatus ==
    /\ call.pc = "Details"
    /\ call' = MigrationResponse(call.op, jobs[call.job].ID, call.Status, call.Message,
                                  Ref(call.job), jobs[call.job].Details)
    /\ UNCHANGED <<jobs, migrations, metrics, mux, pc, wake, now, trace>>

\* Faulty variant: the pointer to mc.metrics itself is returned.
MetricsResult_Shared(m) == Shared

\* metrics := *mc.metrics; return &metrics, all under RLock.
MetricsResult(m) == Copy(m)

GetMetrics ==
    /\ call.pc = "returned"
    /\ mux = 0
    /\ call' = [op |-> "GetMetrics", pc |-> "returned", err |-> FALSE,
                result |-> MetricsResult(metrics), seen |-> metrics]
    /\ UNCHANGED <<jobs, migrations, metrics, mux, pc, wake, now, trace>>

----------------------------------------------------------------------------

Init ==
    /\ jobs = << >>
    /\ migrations = << >>
    /\ metrics = ZeroMetrics
    /\ mux = 0
    /\ pc = << >>
    /\ wake = << >>
    /\ now = 0
    /\ trace = << >>
    /\ call = NoCall

Submit ==
    \E req \in Requests, id \in NewIDs({jobs[j].ID : j \in JobIds}), d \in {0, SettleDelay} :
        StartMigration(req, id, d)

Pipeline ==
    \/ \E j \in JobIds : Lock(j)
    \/ \E j \in JobIds : UpdateJobStatus(j)
    \/ \E j \in JobIds, ok \in BOOLEAN, pod \in Pods : CaptureGetPod(j, ok, pod)
    \/ \E j \in JobIds, ok \in BOOLEAN, states \in PodContainerStates :
          CaptureGetPodContainerStates(j, ok, states)
    \/ \E j \in JobIds, ok \in BOOLEAN, sample \in OriginalSamples :
          CaptureGetPodMetrics(j, ok, sample)
    \/ \E j \in JobIds, ok \in BOOLEAN : CreateCheckpoint(j, ok)
    \/ \E j \in JobIds, ok \in BOOLEAN : OptimizedGetPod(j, ok)
    \/ \E j \in JobIds, ok \in BOOLEAN : OptimizedCreate(j, ok)
    \/ \E j \in JobIds, ok \in BOOLEAN : OptimizedWaitForPodReady(j, ok)
    \/ \E j \in JobIds, ok \in BOOLEAN : DeleteOriginalPod(j, ok)
    \/ \E j \in JobIds : SleepReturns(j)
    \/ \E j \in JobIds, ok \in BOOLEAN, sample \in OptimizedSamples :
          CollectPostMigrationMetrics(j, ok, sample)
    \/ \E j \in JobIds : FailMigration(j)
    \/ \E j \in JobIds : CompleteMigration(j)
    \/ Tick

Queries ==
    \/ \E id \in QueryIDs : GetMigrationStatus(id)
    \/ ReadStatus
    \/ ReadMessage
    \/ ReturnStatus
    \/ GetMetrics

\* Submissions and their goroutines.
Next == Submit \/ Pipeline

Spec == Init /\ [][Next]_vars

\* A step of the goroutine of job j.
GoroutineStep(j) ==
    /\ j \in JobIds
    /\ Pipeline
    /\ pc'[j] # pc[j] \/ (mux # j /\ mux' = j)

\* The scheduler runs every goroutine that can take a step, an Unlock wakes
\* the goroutines waiting in Lock, and time passes.
Fairness ==
    /\ \A j \in 1 .. MaxJobs : WF_vars(GoroutineStep(j))
    /\ WF_vars(Tick)

\* Submissions that ask for every step and set a deadline, at one reading of the clock.
SubmitAllSteps ==
    \E req \in {r \in Requests : r.PreservePV /\ r.Timeout > 0},
       id \in NewIDs({jobs[j].ID : j \in JobIds}) :
        StartMigration(req, id, 0)

NextAllSteps == SubmitAllSteps \/ Pipeline

FairSpec == Init /\ [][NextAllSteps]_vars /\ Fairness

\* The same with the caller's queries interleaved, for MaxQueriedJobs submissions.
MaxQueriedJobs == 1

NextQueried ==
    \/ Len(jobs) < MaxQueriedJobs /\ Submit
    \/ Pipeline
    \/ Queries

SpecQueried == Init /\ [][NextQueried]_vars

\* The same with any pod of AllPods in the cluster, for MaxQueriedJobs submissions.
NextAllPods ==
    \/ Len(jobs) < MaxQueriedJobs /\ Submit
    \/ Pipeline
    \/ \E j \in JobIds, ok \in BOOLEAN, pod \in AllPods : CaptureGetPod(j, ok, pod)
    \/ \E j \in JobIds, ok \in BOOLEAN, states \in AllPodContainerStates :
          CaptureGetPodContainerStates(j, ok, states)

SpecAllPods == Init /\ [][NextAllPods]_vars

----------------------------------------------------------------------------
(* Properties *)

Terminal(j) == jobs[j].Status \in {MigrationStatusCompleted, MigrationStatusFailed}

Happened(j, step, ok) == \E i \in 1 .. Len(trace[j]) : trace[j][i] = <<step, ok>>

Steps(j) == [i \in 1 .. Len(trace[j]) |-> trace[j][i][1]]

CollaboratorCalls ==
    {"GetPod1", "GetPodContainerStates", "GetPodMetrics1", "CreatePVC", "GetPod3",
     "CreateOptimizedPod", "WaitForPodReady", "DeletePod", "GetPodMetrics5"}

FailFastCalls ==
    {"GetPod1", "GetPodContainerStates", "CreatePVC",
     "GetPod3", "CreateOptimizedPod", "WaitForPodReady"}

C1_StatusValues ==
    \A j \in JobIds :
        jobs[j].Status \in {MigrationStatusPending, MigrationStatusRunning,
                            MigrationStatusCompleted, MigrationStatusFailed}

C1_StatusStep ==
    /\ \A j \in JobIds :
          \/ jobs'[j].Status = jobs[j].Status
          \/ jobs[j].Status = MigrationStatusPending
               /\ jobs'[j].Status = MigrationStatusRunning
          \/ jobs[j].Status = MigrationStatusRunning
               /\ jobs'[j].Status \in {MigrationStatusCompleted, MigrationStatusFailed}
    /\ \A j \in (1 .. Len(jobs')) \ JobIds : jobs'[j].Status = MigrationStatusPending

\* C1: a job's Status only ever moves pending -> running -> completed or failed:
\* a new job is pending, every change of Status is pending to running or running
\* to completed/failed, and Status is never any other value.
C1_StatusMonotonic == [] C1_StatusValues /\ [][C1_StatusStep]_vars

C1_Witness ==
    \E j, k \in JobIds :
        /\ jobs[j].Status = MigrationStatusCompleted
        /\ jobs[k].Status = MigrationStatusFailed
        /\ pc[j] = "done" /\ pc[k] = "done"

\* C2: a job whose deadline passed before its terminal transition ends failed:
\* no job is completed with an end time at or after its deadline.
C2_DeadlineExpiryFails ==
    \A j \in JobIds :
        jobs[j].Status = MigrationStatusCompleted
            => jobs[j].Details.EndTime[1] < jobs[j].deadline

\* C3: a completed job has a successful workload lookup and classification,
\* a successful checkpoint creation when PreservePV is set, and a successful
\* lookup, creation and readiness wait of the new pod; none of these failed.
C3_CompletedOnlyIfFailFastSucceeded ==
    \A j \in JobIds :
        jobs[j].Status = MigrationStatusCompleted =>
            /\ Happened(j, "GetPod1", TRUE)
            /\ Happened(j, "GetPodContainerStates", TRUE)
            /\ jobs[j].Request.PreservePV => Happened(j, "CreatePVC", TRUE)
            /\ Happened(j, "GetPod3", TRUE)
            /\ Happened(j, "CreateOptimizedPod", TRUE)
            /\ Happened(j, "WaitForPodReady", TRUE)
            /\ \A step \in FailFastCalls : ~Happened(j, step, FALSE)

C3_Witness ==
    \E j \in JobIds :
        /\ jobs[j].Status = MigrationStatusCompleted
        /\ jobs[j].Request.PreservePV
        /\ Happened(j, "GetPodMetrics1", FALSE)

\* C4: after a failed fail-fast call, the job makes no further collaborator call.
C4_NoStepAfterFailFast ==
    \A j \in JobIds :
        \A i \in 1 .. Len(trace[j]) :
            (trace[j][i][1] \in FailFastCalls /\ ~trace[j][i][2]) =>
                \A k \in (i + 1) .. Len(trace[j]) : trace[j][k][1] \notin CollaboratorCalls

C4_Witness ==
    \E j \in JobIds :
        /\ Happened(j, "CreatePVC", FALSE)
        /\ jobs[j].Status = MigrationStatusFailed
        /\ pc[j] = "done"

\* C5: once steps 1-3 have succeeded the job never fails, and when its goroutine
\* has returned it is completed, whatever the outcomes of the deletion of the
\* original pod and of the post-migration sampling.
C5_BestEffortNeverFails ==
    \A j \in JobIds :
        Happened(j, "WaitForPodReady", TRUE) =>
            /\ jobs[j].Status # MigrationStatusFailed
            /\ pc[j] = "done" => jobs[j].Status = MigrationStatusCompleted

C5_Witness ==
    \E j \in JobIds :
        /\ Happened(j, "DeletePod", FALSE)
        /\ Happened(j, "GetPodMetrics5", FALSE)
        /\ jobs[j].Status = MigrationStatusCompleted

C6_Rank(step) ==
    CASE step = "running" -> 0
      [] step = "GetPod1" -> 1
      [] step = "GetPodContainerStates" -> 2
      [] step = "GetPodMetrics1" -> 3
      [] step = "CreatePVC" -> 4
      [] step = "GetPod3" -> 5
      [] step = "CreateOptimizedPod" -> 6
      [] step = "WaitForPodReady" -> 7
      [] step = "DeletePod" -> 8
      [] step = "Sleep" -> 9
      [] step = "GetPodMetrics5" -> 10
      [] OTHER -> 11

C6_FullRun(preserve) ==
    <<"running", "GetPod1", "GetPodContainerStates", "GetPodMetrics1">>
      \o (IF preserve THEN <<"CreatePVC">> ELSE << >>)
      \o <<"GetPod3", "CreateOptimizedPod", "WaitForPodReady", "DeletePod", "Sleep",
           "GetPodMetrics5", "completed">>

\* C6: the steps of a job happen in the order running, workload lookup,
\* classification, original sampling, checkpoint, new-pod lookup, creation,
\* readiness wait, deletion, settle delay, optimized sampling, terminal
\* transition; the first is the transition to running, each happens at most
\* once, and a completed job has taken all of them (the checkpoint if requested).
C6_StepsInOrder ==
    \A j \in JobIds :
        /\ \A i \in 1 .. (Len(trace[j]) - 1) :
              C6_Rank(trace[j][i][1]) < C6_Rank(trace[j][i + 1][1])
        /\ trace[j] # << >> => trace[j][1][1] = "running"
        /\ (trace[j] = << >>) = (jobs[j].Status = MigrationStatusPending)
        /\ Terminal(j) => trace[j][Len(trace[j])][1] = jobs[j].Status
        /\ jobs[j].Status = MigrationStatusCompleted
              => Steps(j) = C6_FullRun(jobs[j].Request.PreservePV)

C6_Witness ==
    \E j \in JobIds :
        /\ jobs[j].Status = MigrationStatusCompleted
        /\ jobs[j].Request.PreservePV
        /\ Len(trace[j]) = 12

\* C7: SuccessfulMigrations is the number of completed jobs and FailedMigrations
\* the number of failed jobs, in every state.
C7_OutcomeCounters ==
    /\ metrics.SuccessfulMigrations =
          Cardinality({j \in JobIds : jobs[j].Status = MigrationStatusCompleted})
    /\ metrics.FailedMigrations =
          Cardinality({j \in JobIds : jobs[j].Status = MigrationStatusFailed})

C7_Witness ==
    /\ metrics.SuccessfulMigrations = 1
    /\ metrics.FailedMigrations = 1

\* C8: TotalMigrations is the number of jobs in a terminal state, that is
\* SuccessfulMigrations + FailedMigrations.
C8_TotalCountsFinished ==
    /\ metrics.TotalMigrations = Cardinality({j \in JobIds : Terminal(j)})
    /\ metrics.TotalMigrations = metrics.SuccessfulMigrations + metrics.FailedMigrations

C9_EndTimeState ==
    \A j \in JobIds :
        IF Terminal(j)
        THEN jobs[j].Details.EndTime # Nil /\ jobs[j].Details.Duration # Nil
        ELSE jobs[j].Details.EndTime = Nil /\ jobs[j].Details.Duration = Nil

C9_EndTimeStep ==
    \A j \in JobIds :
        /\ jobs[j].Details.EndTime # Nil => jobs'[j].Details.EndTime = jobs[j].Details.EndTime
        /\ jobs[j].Details.Duration # Nil
              => jobs'[j].Details.Duration = jobs[j].Details.Duration

\* C9: Details.EndTime and Details.Duration are unset while the job is pending
\* or running, set once it is completed or failed, and never change once set.
C9_EndTimeSetOnce == [] C9_EndTimeState /\ [][C9_EndTimeStep]_vars

C9_Witness ==
    \E j \in JobIds :
        /\ jobs[j].Status = MigrationStatusFailed
        /\ jobs[j].Details.EndTime # Nil
        /\ now > jobs[j].Details.EndTime[1]

\* C10: for every terminal job, Details.EndTime >= Details.StartTime and
\* Details.Duration = Details.EndTime - Details.StartTime.
C10_DurationExact ==
    \A j \in JobIds :
        Terminal(j) =>
            /\ jobs[j].Details.EndTime[1] >= jobs[j].Details.StartTime
            /\ jobs[j].Details.Duration[1] =
                  jobs[j].Details.EndTime[1] - jobs[j].Details.StartTime

----------------------------------------------------------------------------
(* Properties of the responses *)

\* The caller holds a *MigrationResponse returned by GetMigrationStatus.
StatusReturned ==
    call.op = "GetMigrationStatus" /\ call.pc = "returned" /\ ~call.err

\* The job a returned *MigrationResponse points at.
ResponseJob == call.Details.job

\* The failMigration call site of a failed job, from its history.
C11_Site(j) == FailSite(CHOOSE step \in FailFastCalls : Happened(j, step, FALSE))

\* C11: when a job has failed on a fail-fast error, the message of that error
\* is what a later GetMigrationStatus of the job returns as its Message.
C11_FailureMessageReturned ==
    (StatusReturned /\ call.Status = MigrationStatusFailed
                    /\ jobs[ResponseJob].Status = MigrationStatusFailed)
        => call.Message = FailureMessage(C11_Site(ResponseJob))

\* A Status and a Details that one state of the job can hold together: the
\* end time is set exactly when the Status is completed or failed (C9).
C12_Coexist(status, details) ==
    (status \in {MigrationStatusCompleted, MigrationStatusFailed}) <=> (details.EndTime # Nil)

\* C12: the Status of a response of GetMigrationStatus and the Details it
\* returns belong to one state of the job, whatever the job's goroutine does
\* during the call: never Status running together with an end time.
C12_ResponseFromOneInstant ==
    StatusReturned => C12_Coexist(call.Status, call.seen)

\* The caller holds a *MigrationResponse, of StartMigration or GetMigrationStatus.
ResponseReturned ==
    call.op \in {"StartMigration", "GetMigrationStatus"} /\ call.pc = "returned" /\ ~call.err

\* C13: a response of StartMigration or GetMigrationStatus is a snapshot: what
\* its Details show stays what they showed when the call returned, whatever
\* the job's goroutine does afterwards.
C13_ResponseIsSnapshot ==
    ResponseReturned => DetailsAt(call.Details) = call.seen

----------------------------------------------------------------------------
(* Properties of the registry *)

\* C14: every StartMigration creates its job under an ID that no earlier job
\* has, so after k calls mc.migrations holds exactly k jobs.
C14_FreshIDPerSubmission ==
    /\ \A i, j \in JobIds : i # j => jobs[i].ID # jobs[j].ID
    /\ Cardinality(DOMAIN migrations) = Len(jobs)

\* C15: a job registered under an ID stays the job registered under it: a
\* registration under an ID that exists never overwrites the existing record.
C15_ExistingRecordKept ==
    \A j \in JobIds : migrations[jobs[j].ID] = j

IssuedIDs == {jobs[j].ID : j \in JobIds}

\* C16: StartMigration returns the ID of the new job with status pending and
\* the job is in mc.migrations when it returns; from then on no
\* GetMigrationStatus of that ID fails with not-found.
C16_SubmittedIsRegistered ==
    /\ (call.op = "StartMigration" /\ call.pc = "returned")
          => /\ call.Status = MigrationStatusPending
             /\ call.MigrationID = jobs[ResponseJob].ID
             /\ call.MigrationID \in DOMAIN migrations
    /\ IssuedIDs \subseteq DOMAIN migrations
    /\ (call.op = "GetMigrationStatus" /\ call.pc = "returned" /\ call.err)
          => call.id \notin IssuedIDs

C16_Witness ==
    /\ StatusReturned
    /\ call.MigrationID \in IssuedIDs
    /\ call.Status = MigrationStatusCompleted

\* The step that is the lookup of GetMigrationStatus.
C17_LookupStep ==
    call.pc = "returned" /\ call'.op = "GetMigrationStatus" /\ call' # call

C17_Step ==
    C17_LookupStep =>
        /\ call'.id \notin DOMAIN migrations => call' = NotFound(call'.id)
        /\ call' = NotFound(call'.id)
              => /\ call'.id \notin IssuedIDs
                 /\ UNCHANGED <<jobs, migrations, metrics, mux, pc, wake, now, trace>>

\* C17: GetMigrationStatus of an ID under which no job was ever registered
\* fails with not-found and changes neither the jobs, the registry nor the metrics.
C17_UnknownIDNotFound == [][C17_Step]_vars

C17_Witness ==
    /\ call.op = "GetMigrationStatus" /\ call.pc = "returned" /\ call.err
    /\ \E j \in JobIds : Terminal(j)

----------------------------------------------------------------------------
(* Properties of GetMetrics *)

MetricsReturned == call.op = "GetMetrics" /\ call.pc = "returned"

C18_Step ==
    (call'.op = "GetMetrics" /\ call' # call)
        => /\ call'.seen = metrics
           /\ UNCHANGED <<jobs, migrations, metrics, mux, pc, wake, now, trace>>

\* C18: GetMetrics returns the counters of one instant as a value of its own:
\* what the returned pointer shows stays what it showed at the return while
\* jobs end afterwards, and GetMetrics changes no state of the controller.
C18_MetricsAreCopied ==
    [] (MetricsReturned => MetricsAt(call.result) = call.seen) /\ [][C18_Step]_vars

C18_Witness ==
    /\ MetricsReturned
    /\ MetricsAt(call.result) = call.seen
    /\ call.seen = ZeroMetrics
    /\ metrics.SuccessfulMigrations = 1

----------------------------------------------------------------------------
(* Properties of the deadline and of the checkpoint *)

\* C19: a request with Timeout 0 gets the default deadline, DefaultTimeout
\* seconds after its submission, not a deadline of length zero; a request with
\* Timeout t > 0 gets the deadline t seconds after its submission.
C19_DeadlineFromTimeout ==
    \A j \in JobIds :
        LET t == jobs[j].Request.Timeout
        IN  /\ t = 0 => jobs[j].deadline = jobs[j].StartTime + DefaultTimeout
            /\ t > 0 => jobs[j].deadline = jobs[j].StartTime + t

\* A job submitted with Timeout 0 whose last call succeeded SettleDelay seconds
\* or more after its submission, beside a job with a Timeout of its own.
C19_Witness ==
    \E i, j \in JobIds :
        /\ jobs[i].Request.Timeout = 0
        /\ Happened(i, "GetPodMetrics5", TRUE)
        /\ jobs[i].Status = MigrationStatusCompleted
        /\ jobs[j].Request.Timeout > 0
        /\ jobs[j].deadline = jobs[j].StartTime + jobs[j].Request.Timeout

C20_Requests(j) == {i \in 1 .. Len(trace[j]) : trace[j][i][1] = "CreatePVC"}

C20_State ==
    \A j \in JobIds :
        IF jobs[j].Request.PreservePV
        THEN /\ Cardinality(C20_Requests(j)) <= 1
             /\ \A i \in C20_Requests(j) :
                    /\ i > 1 /\ trace[j][i - 1][1] = "GetPodMetrics1"
                    /\ \E k \in 1 .. i : trace[j][k] = <<"GetPodContainerStates", TRUE>>
                    /\ \A k \in 1 .. i : trace[j][k][1] \notin {"GetPod3", "CreateOptimizedPod"}
             /\ (\E k \in 1 .. Len(trace[j]) : trace[j][k][1] = "GetPod3")
                    => Happened(j, "CreatePVC", TRUE)
             /\ jobs[j].Status = MigrationStatusCompleted
                    => /\ Happened(j, "CreatePVC", TRUE)
                       /\ jobs[j].Details.CheckpointPath # EmptyString
        ELSE /\ C20_Requests(j) = {}
             /\ jobs[j].Details.CheckpointPath = EmptyString

C20_Step ==
    \A j \in JobIds :
        IF trace'[j] = Append(trace[j], <<"CreatePVC", TRUE>>)
        THEN jobs'[j].Details.CheckpointPath = CheckpointName(jobs[j].Request, now)
        ELSE jobs'[j].Details.CheckpointPath = jobs[j].Details.CheckpointPath

\* C20: the checkpoint step runs exactly when requested.  With PreservePV the
\* claim is requested once, after step 1 has succeeded and before the new pod
\* is created, and a completed job has as CheckpointPath the non-empty name of
\* the claim it requested; without PreservePV no claim is ever requested and
\* CheckpointPath stays empty.
C20_CheckpointWhenRequested == [] C20_State /\ [][C20_Step]_vars

C20_Witness ==
    \E i, j \in JobIds :
        /\ jobs[i].Request.PreservePV /\ jobs[i].Status = MigrationStatusCompleted
        /\ jobs[i].Details.CheckpointPath # EmptyString
        /\ ~jobs[j].Request.PreservePV /\ jobs[j].Status = MigrationStatusCompleted
        /\ jobs[j].Details.CheckpointPath = EmptyString

----------------------------------------------------------------------------
(* Properties of the recorded samples and names *)

C21_State ==
    \A j \in JobIds :
        LET name == jobs[j].Details.NewPodName
        IN  /\ name # EmptyString <=> Happened(j, "WaitForPodReady", TRUE)
            /\ jobs[j].Status = MigrationStatusFailed => name = EmptyString
            /\ jobs[j].Status = MigrationStatusCompleted => name = CreatedPodName(jobs[j].Request)
            /\ (\E ok \in BOOLEAN : Happened(j, "GetPodMetrics5", ok)) => name # EmptyString

C21_Step ==
    \A j \in JobIds :
        jobs[j].Details.NewPodName # EmptyString
            => jobs'[j].Details.NewPodName = jobs[j].Details.NewPodName

\* C21: Details.NewPodName is recorded exactly when step 3 has succeeded: it
\* is empty before the readiness wait has returned success and in every failed
\* job, also one whose pod was created but did not become ready; it is set in
\* every completed job, it never changes, and step 5 asks for the usage of
\* a pod only under a recorded name.
C21_NewPodNameWhenReady == [] C21_State /\ [][C21_Step]_vars

C21_Witness ==
    \E i, j \in JobIds :
        /\ jobs[i].Status = MigrationStatusFailed
        /\ Happened(i, "CreateOptimizedPod", TRUE) /\ Happened(i, "WaitForPodReady", FALSE)
        /\ jobs[i].Details.NewPodName = EmptyString
        /\ jobs[j].Status = MigrationStatusCompleted
        /\ Happened(j, "GetPodMetrics5", TRUE)
        /\ jobs[j].Details.NewPodName # EmptyString

----------------------------------------------------------------------------
(* Properties of the metrics at a completion *)

\* The step in which job j becomes completed, or failed.
Completes(j) ==
    jobs[j].Status # MigrationStatusCompleted /\ jobs'[j].Status = MigrationStatusCompleted

Fails(j) ==
    jobs[j].Status # MigrationStatusFailed /\ jobs'[j].Status = MigrationStatusFailed

C22_Step ==
    /\ \A j \in JobIds :
          Completes(j) =>
              LET n == metrics'.TotalMigrations
                  d == jobs'[j].Details.Duration[1]
              IN  /\ n = metrics.TotalMigrations + 1
                  /\ metrics'.AverageDuration = (metrics.AverageDuration * (n - 1) + d) \div n
    /\ (\A j \in JobIds : ~Completes(j))
          => /\ metrics'.AverageDuration = metrics.AverageDuration
             /\ metrics'.TotalMigrations = metrics.TotalMigrations

\* C22: at each completion with duration d the average becomes
\* (avg * (n - 1) + d) / n, in the integer arithmetic of time.Duration, where
\* avg is the previous AverageDuration and n is TotalMigrations counting this
\* job; a job that fails changes neither the average nor n.
C22_RunningAverage == [][C22_Step]_vars

C22_Witness ==
    /\ metrics.TotalMigrations = 2
    /\ metrics.FailedMigrations = 0
    /\ \E i, j \in JobIds :
          /\ jobs[i].Details.Duration = Some(SettleDelay)
          /\ jobs[j].Details.Duration = Some(2 * SettleDelay)
    /\ 2 * metrics.AverageDuration = 3 * SettleDelay

\* r is the number (original - optimized) / original * 100, for original # 0.
C23_IsPercentage(r, original, optimized) ==
    original # 0 => r.den > 0 /\ r.num * original = (original - optimized) * 100 * r.den

C23_Step ==
    /\ \A j \in JobIds :
          Completes(j) =>
              LET o == jobs'[j].Details.OriginalResources
                  p == jobs'[j].Details.OptimizedResources
              IN  IF o # Nil /\ p # Nil
                  THEN /\ C23_IsPercentage(metrics'.CPUSavings, o[1].CPUUsage, p[1].CPUUsage)
                       /\ C23_IsPercentage(metrics'.MemorySavings,
                                           o[1].MemoryUsage, p[1].MemoryUsage)
                  ELSE /\ metrics'.CPUSavings = metrics.CPUSavings
                       /\ metrics'.MemorySavings = metrics.MemorySavings
    /\ (\A j \in JobIds : ~Completes(j))
          => /\ metrics'.CPUSavings = metrics.CPUSavings
             /\ metrics'.MemorySavings = metrics.MemorySavings

\* C23: at a completion where the job has both samples, CPUSavings and
\* MemorySavings become (original - optimized) / original * 100 of that job,
\* each from its own pair of values, replacing the previous values; usage
\* 2.0 cores and 1000 bytes against 1.0 and 600 gives 50 and 40; at a
\* completion without both samples, and at any other step, they do not change.
C23_SavingsOfLastCompletion ==
    /\ [] (Savings(2000, 1000) = Float(50, 1) /\ Savings(1000, 600) = Float(40, 1))
    /\ [][C23_Step]_vars

\* A measured job has completed after an estimated one: 75 and 60 have replaced 50 and 40.
C23_Witness ==
    /\ metrics.SuccessfulMigrations = 2
    /\ metrics.CPUSavings = Float(75, 1)
    /\ metrics.MemorySavings = Float(60, 1)
    /\ \E j \in JobIds :
          /\ jobs[j].Status = MigrationStatusCompleted
          /\ Happened(j, "GetPodMetrics5", FALSE)
          /\ jobs[j].Details.OptimizedResources = Some([CPUUsage |-> 1000, MemoryUsage |-> 600])

C24_State ==
    \A j \in JobIds :
        Happened(j, "GetPodMetrics5", FALSE) =>
            LET o == jobs[j].Details.OriginalResources[1]
                p == jobs[j].Details.OptimizedResources
            IN  /\ p # Nil
                /\ 2 * p[1].CPUUsage = o.CPUUsage
                /\ 10 * p[1].MemoryUsage <= 6 * o.MemoryUsage
                /\ 6 * o.MemoryUsage < 10 * (p[1].MemoryUsage + 1)
                /\ jobs[j].Status # MigrationStatusFailed
                /\ pc[j] = "done" => jobs[j].Status = MigrationStatusCompleted

\* C24: when the sampling of the new pod fails in step 5, the optimized sample
\* recorded is the estimate of 0.5 times the original cpu and 0.6 times the
\* original memory (as a whole number of bytes): 2.0 cores and 1000 bytes give
\* 1.0 and 600; the job does not fail and ends completed.
C24_EstimateOnSamplingFailure ==
    /\ Estimate([CPUUsage |-> 2000, MemoryUsage |-> 1000])
          = [CPUUsage |-> 1000, MemoryUsage |-> 600]
    /\ C24_State

C24_Witness ==
    \E j \in JobIds :
        /\ Happened(j, "GetPodMetrics1", TRUE)
        /\ Happened(j, "GetPodMetrics5", FALSE)
        /\ jobs[j].Details.OptimizedResources = Some([CPUUsage |-> 1000, MemoryUsage |-> 600])
        /\ jobs[j].Status = MigrationStatusCompleted

\* C25: an optimized sample that is the estimate of step 5 is marked as such:
\* the Details of a job whose sample was estimated are never those of a job
\* whose sample was measured, so a reader of Details can tell the two apart.
C25_ProvenanceReadable ==
    \A i, j \in JobIds :
        (Happened(i, "GetPodMetrics5", FALSE) /\ Happened(j, "GetPodMetrics5", TRUE))
            => jobs[i].Details # jobs[j].Details

\* C26: checkpoint names are unique: two jobs never use the same name for
\* their checkpoint claims, also when they migrate a pod of the same name and
\* are submitted close together in time.
C26_CheckpointNamesUnique ==
    \A i, j \in JobIds :
        (i # j /\ jobs[i].Details.PVClaimName # EmptyString)
            => jobs[i].Details.PVClaimName # jobs[j].Details.PVClaimName

----------------------------------------------------------------------------
(* Termination *)

\* C27: every submitted job eventually is completed or failed, when the
\* goroutines are scheduled fairly, time passes and every collaborator call
\* returns: no job stays pending or running for ever.
C27_EveryJobEnds ==
    \A j \in 1 .. MaxJobs :
        (Len(jobs) >= j) ~> (Len(jobs) >= j /\ Terminal(j))

\* Both jobs have ended after they have competed for the lock and one has slept.
C27_Witness ==
    /\ Len(jobs) = MaxJobs
    /\ \A j \in JobIds : Terminal(j) /\ pc[j] = "done"
    /\ \E j \in JobIds : Happened(j, "Sleep", TRUE)
    /\ \E j \in JobIds : jobs[j].Status = MigrationStatusFailed

----------------------------------------------------------------------------
(* Step 1 *)

C28_State ==
    \A j \in JobIds :
        LET n == Len(trace[j])
        IN  /\ Happened(j, "GetPod1", FALSE)
                  => /\ jobs[j].Status # MigrationStatusCompleted
                     /\ pc[j] \in {"fail1", "done"}
                     /\ pc[j] = "done" => jobs[j].Status = MigrationStatusFailed
                     /\ jobs[j].Details.OriginalResources = Nil
            /\ Happened(j, "GetPodMetrics1", FALSE)
                  => /\ jobs[j].Details.OriginalResources = Some(ZeroSample)
                     /\ \A i \in 1 .. n :
                           trace[j][i] = <<"GetPodMetrics1", FALSE>>
                               => IF i = n THEN pc[j] \in {"CreatePVC", "GetPod3"}
                                  ELSE trace[j][i + 1][1] \in {"CreatePVC", "GetPod3"}

\* C28: in step 1 a failed lookup of the pod ends the job failed; a failure
\* of the sampling of the original usage alone does not: the job goes on to
\* the next step with the sample of cpu 0 and memory 0 recorded in Details.
C28_StepOnePolicy == C28_State

C28_Witness ==
    \E i, j \in JobIds :
        /\ Happened(i, "GetPod1", FALSE) /\ jobs[i].Status = MigrationStatusFailed
        /\ Happened(j, "GetPodMetrics1", FALSE)
        /\ jobs[j].Details.OriginalResources = Some(ZeroSample)
        /\ jobs[j].Status = MigrationStatusCompleted

\* The entry s of the classification is the one the rule gives for container c.
C29_Rule(c, s) ==
    /\ s.Name = c.Name
    /\ c.Phase = "waiting" => s.State = "waiting" /\ ~s.ShouldMigrate
    /\ c.Phase = "running" => s.State = "running" /\ s.ShouldMigrate
    /\ (c.Phase = "terminated" /\ c.ExitCode = 0) => s.State = "completed" /\ ~s.ShouldMigrate
    /\ (c.Phase = "terminated" /\ c.ExitCode # 0) => s.State = "failed" /\ s.ShouldMigrate

----------------------------------------------------------------------------
(* Locking *)

C30_Step ==
    \A j \in JobIds :
        (jobs'[j].Status # jobs[j].Status \/ jobs'[j].Details # jobs[j].Details) => mux = j

\* C30: every write to the Status of a job or to a field of its Details is
\* made while the goroutine that writes holds migrationsMux.Lock.
C30_WritesUnderLock == [][C30_Step]_vars

\* The goroutine that holds the lock is at one of its mutations, and that
\* mutation can be taken.
C31_State ==
    mux # 0 =>
        /\ mux \in JobIds
        /\ pc[mux] \in LockPoints
        /\ ENABLED (UpdateJobStatus(mux) \/ FailMigration(mux) \/ CompleteMigration(mux))

\* The step a goroutine takes while it holds the lock releases the lock.
C31_Step ==
    \A j \in JobIds : (mux = j /\ pc'[j] # pc[j]) => mux' = 0

\* C31: no goroutine holds migrationsMux while it is in a collaborator call,
\* in the readiness wait or in the settle delay: the lock is held for one
\* mutation only, which can always be taken and ends with the Unlock, so no
\* caller and no other goroutine waits for the length of a step.
C31_LockHeldForOneMutation == [] C31_State /\ [][C31_Step]_vars

\* One goroutine holds the lock while the other is in its settle delay.
C31_Witness ==
    \E i, j \in JobIds :
        /\ mux = i /\ pc[i] = "completeMigration"
        /\ pc[j] = "Sleep" /\ wake[j] > now

\* C32: the original pod is deleted only after its replacement is ready: a
\* job calls DeletePod only after its CreateOptimizedPod and its
\* WaitForPodReady both returned success, and a failed job never called it.
C32_DeleteOnlyAfterReady ==
    \A j \in JobIds :
        /\ \A i \in 1 .. Len(trace[j]) :
              trace[j][i][1] = "DeletePod" =>
                  /\ \E k \in 1 .. (i - 1) : trace[j][k] = <<"CreateOptimizedPod", TRUE>>
                  /\ \E k \in 1 .. (i - 1) : trace[j][k] = <<"WaitForPodReady", TRUE>>
        /\ pc[j] = "DeletePod" =>
              Happened(j, "CreateOptimizedPod", TRUE) /\ Happened(j, "WaitForPodReady", TRUE)
        /\ jobs[j].Status = MigrationStatusFailed =>
              ~Happened(j, "DeletePod", TRUE) /\ ~Happened(j, "DeletePod", FALSE)

\* One job has deleted its original pod and the other has ended failed at the
\* readiness wait.
C32_Witness ==
    \E i, j \in JobIds :
        /\ Happened(i, "DeletePod", TRUE)
        /\ Happened(j, "WaitForPodReady", FALSE)
        /\ jobs[j].Status = MigrationStatusFailed

C33_Once == {"CreatePVC", "CreateOptimizedPod", "WaitForPodReady", "DeletePod", "GetPodMetrics5"}

\* C33: no step is retried: a job calls each of CreatePVC, CreateOptimizedPod,
\* WaitForPodReady, DeletePod and the sampling of step 5 at most once, and
\* after a call that failed the job is not at that call again.
C33_NoRetry ==
    \A j \in JobIds :
        /\ \A step \in C33_Once :
              Cardinality({i \in 1 .. Len(trace[j]) : trace[j][i][1] = step}) <= 1
        /\ \A i \in 1 .. Len(trace[j]) :
              (trace[j][i][1] \in C33_Once /\ ~trace[j][i][2]) => pc[j] # trace[j][i][1]

\* A job whose deletion and whose sampling of step 5 both failed has gone on
\* to its end.
C33_Witness ==
    \E j \in JobIds :
        /\ Happened(j, "DeletePod", FALSE)
        /\ Happened(j, "GetPodMetrics5", FALSE)
        /\ pc[j] = "done"
        /\ jobs[j].Request.PreservePV
        /\ Happened(j, "CreatePVC", TRUE)

\* C34: whenever the savings are computed at a completion, the CPU and the
\* memory usage of the original sample are both non-zero and the savings are
\* numbers, also for a job whose sampling in step 1 failed.
C34_OriginalNonZero ==
    \A j \in JobIds :
        (/\ jobs[j].Status = MigrationStatusCompleted
         /\ jobs[j].Details.OriginalResources # Nil
         /\ jobs[j].Details.OptimizedResources # Nil)
            => /\ jobs[j].Details.OriginalResources[1].CPUUsage # 0
               /\ jobs[j].Details.OriginalResources[1].MemoryUsage # 0
               /\ metrics.CPUSavings.den # 0
               /\ metrics.MemorySavings.den # 0

\* Job j takes a step of its goroutine.
C35_Moves(j) == pc'[j] # pc[j] \/ trace'[j] # trace[j] \/ (mux # j /\ mux' = j)

C35_Step ==
    /\ \A j \in JobIds :
          C35_Moves(j) =>
              /\ \A k \in JobIds \ {j} :
                    /\ jobs'[k] = jobs[k]
                    /\ pc'[k] = pc[k]
                    /\ trace'[k] = trace[k]
                    /\ wake'[k] = wake[k]
              /\ migrations' = migrations
              /\ Len(jobs') = Len(jobs)
              /\ (metrics' # metrics) => (Completes(j) \/ Fails(j))
    /\ \A k \in JobIds : jobs'[k] # jobs[k] => C35_Moves(k)

\* C35: jobs are independent: a step of the goroutine of one job, its
\* terminal transition included, changes neither the Status nor the Details
\* nor the position of another job, nor the registry; outside its own record
\* it changes only the metrics, and only at its terminal transition; and no
\* record changes except by a step of its own goroutine.
C35_JobsIndependent == [][C35_Step]_vars

\* One job has ended failed at step 1 and the other has completed after it.
C35_Witness ==
    \E i, j \in JobIds :
        /\ jobs[i].Status = MigrationStatusFailed
        /\ Happened(i, "GetPod1", FALSE)
        /\ jobs[j].Status = MigrationStatusCompleted
        /\ jobs[i].Details.EndTime[1] < jobs[j].Details.EndTime[1]
        /\ jobs[i].Details.StartTime <= jobs[j].Details.StartTime

\* C36: a pod without containers is not refused: when the analysis call
\* returns, step 1 records the empty classification and goes on to the
\* sampling and the later steps; such a job ends failed only by a failure of
\* a later fail-fast call.
C36_EmptyPodProceeds ==
    \A j \in JobIds :
        (jobs[j].pod = Some(<< >>) /\ Happened(j, "GetPodContainerStates", TRUE)) =>
            /\ jobs[j].Details.ContainerStates = << >>
            /\ pc[j] \notin {"GetPodContainerStates", "fail1"}
            /\ jobs[j].Details.OriginalResources = Nil => pc[j] = "GetPodMetrics1"
            /\ jobs[j].Status = MigrationStatusFailed =>
                  \E step \in {"CreatePVC", "GetPod3", "CreateOptimizedPod", "WaitForPodReady"} :
                      Happened(j, step, FALSE)

\* A job for a pod without containers has made its checkpoint and completed.
C36_Witness ==
    \E j \in JobIds :
        /\ jobs[j].pod = Some(<< >>)
        /\ jobs[j].Details.ContainerStates = << >>
        /\ Happened(j, "CreatePVC", TRUE)
        /\ Happened(j, "CreateOptimizedPod", TRUE)
        /\ jobs[j].Status = MigrationStatusCompleted

C37_State ==
    \A j \in JobIds :
        /\ pc[j] \in {"CreatePVC", "GetPod3", "CreateOptimizedPod", "WaitForPodReady",
                      "DeletePod", "Sleep", "GetPodMetrics5", "completeMigration"}
              => jobs[j].Details.OriginalResources # Nil
        /\ pc[j] = "completeMigration" => jobs[j].Details.OptimizedResources # Nil
        /\ jobs[j].Status = MigrationStatusCompleted =>
              /\ jobs[j].Details.OriginalResources # Nil
              /\ jobs[j].Details.OptimizedResources # Nil

C37_Step ==
    \A j \in JobIds :
        Completes(j) =>
            LET o == jobs[j].Details.OriginalResources[1]
                p == jobs[j].Details.OptimizedResources[1]
            IN  /\ metrics'.CPUSavings = Savings(o.CPUUsage, p.CPUUsage)
                /\ metrics'.MemorySavings = Savings(o.MemoryUsage, p.MemoryUsage)

\* C37: in every completed job OriginalResources and OptimizedResources are
\* both present (measured, the zero default or the estimate), so every
\* completion computes the savings anew from the samples of that job.
C37_BothSamplesAtCompletion == [] C37_State /\ [][C37_Step]_vars

\* A job has completed with the zero default as original sample and the
\* estimate from it as optimized sample.
C37_Witness ==
    \E j \in JobIds :
        /\ jobs[j].Status = MigrationStatusCompleted
        /\ Happened(j, "GetPodMetrics1", FALSE)
        /\ Happened(j, "GetPodMetrics5", FALSE)
        /\ jobs[j].Details.OriginalResources = Some(ZeroSample)
        /\ jobs[j].Details.OptimizedResources = Some(Estimate(ZeroSample))

C38_Step ==
    \A j \in JobIds :
        Fails(j) =>
            /\ metrics' = [metrics EXCEPT !.FailedMigrations = @ + 1]
            /\ metrics'.AverageDuration = metrics.AverageDuration
            /\ metrics'.CPUSavings = metrics.CPUSavings
            /\ metrics'.MemorySavings = metrics.MemorySavings

\* C38: a job that ends failed changes, of the metrics, FailedMigrations
\* only: AverageDuration, CPUSavings and MemorySavings keep their values.
C38_FailureKeepsAverages == [][C38_Step]_vars

\* A job has failed and the metrics hold the average and the savings of a
\* completed job.
C38_Witness ==
    /\ metrics.FailedMigrations = 1
    /\ metrics.SuccessfulMigrations = 1
    /\ metrics.AverageDuration = SettleDelay
    /\ metrics.CPUSavings = Float(75, 1)
    /\ metrics.MemorySavings = Float(60, 1)
    /\ \E j \in JobIds :
          jobs[j].Status = MigrationStatusFailed /\ Happened(j, "WaitForPodReady", FALSE)

====
